---- MODULE Spec2Model ----
(***************************************************************************)
(* Model of the zkmb driver (src/src/zkmb.rs): the three subcommands        *)
(* Generate, Prove and Verify run as independent processes that share only  *)
(* the artifact files, plus the mode-indexed selection of the optimization  *)
(* plan that Generate hands to the pass engine.                             *)
(***************************************************************************)
EXTENDS Integers, Sequences, FiniteSets, TLC

\* ---------------------------------------------------------------- bounds
\* number of runs of zkmb (each its own process) in one behaviour
MaxRuns == 3
\* number of distinct well-formed source circuits
NumCircuits == 1
\* largest parameter carried by Mode::Mpc(_) / Mode::ProofOfHighValue(_)
MaxParam == 1

\* the runs; any of them may overlap in time
Runs == 1..MaxRuns
Circuits == 1..NumCircuits
Params == 0..MaxParam

\* ------------------------------------------------------- modes and passes
\* circ::front::Mode as matched at zkmb.rs:120-150
Modes ==
  {[kind |-> "Opt", param |-> 0], [kind |-> "Proof", param |-> 0]}
    \cup {[kind |-> k, param |-> n] : k \in {"Mpc", "ProofOfHighValue"}, n \in Params}

\* Mode::Proof, the mode Generate fixes at zkmb.rs:107
ModeProof == [kind |-> "Proof", param |-> 0]

\* a parameterless Opt::<tag> pass
Pass(tag) == [tag |-> tag, ignore |-> {}]

\* Opt::ConstantFold(Box::new(ignore))
ConstantFold(ignore) == [tag |-> "ConstantFold", ignore |-> ignore]

\* OptPlan with its two passes pushed in the opposite order
OptPlan_FoldFirst == << ConstantFold({}), Pass("ScalarizeVars") >>

\* zkmb.rs:121-124
OptPlan == << Pass("ScalarizeVars"), ConstantFold({}) >>

\* MpcPlan whose second ConstantFold is built with an empty exclusion set
MpcPlan_SecondFoldUnrestricted ==
  LET ignore == {"BV_LSHR", "BV_SHL"} IN
  << Pass("ScalarizeVars"), Pass("Flatten"), Pass("Sha"), ConstantFold(ignore),
     Pass("Flatten"), Pass("Tuple"), Pass("Obliv"), Pass("Tuple"),
     Pass("LinearScan"), Pass("Tuple"), ConstantFold({}), Pass("Binarize") >>

\* zkmb.rs:125-149
MpcPlan ==
  LET ignore == {"BV_LSHR", "BV_SHL"} IN
  << Pass("ScalarizeVars"),
     Pass("Flatten"),
     Pass("Sha"),
     ConstantFold(ignore),
     Pass("Flatten"),
     Pass("Tuple"),
     Pass("Obliv"),
     Pass("Tuple"),
     Pass("LinearScan"),
     Pass("Tuple"),
     ConstantFold(ignore),
     Pass("Binarize") >>

\* the pushes of the Proof arm up to the flag test, and after it, from which
\* the variants below are built
VariantHead ==
  << ConstantFold({}), Pass("DeskolemizeWitnesses"), Pass("ScalarizeVars"),
     Pass("Flatten"), Pass("Sha"), ConstantFold({}), Pass("ParseCondStores"),
     ConstantFold({}), Pass("Obliv"), Pass("SetMembership"),
     Pass("PersistentRam"), Pass("VolatileRam") >>

VariantTail ==
  << Pass("SkolemizeChallenges"), Pass("ScalarizeVars"), ConstantFold({}),
     Pass("Obliv"), Pass("LinearScan"), Pass("Tuple"), Pass("Flatten"),
     ConstantFold({}) >>

VariantFlag(fits_in_bits_ip) ==
  IF fits_in_bits_ip THEN << Pass("FitsInBitsIp") >> ELSE << >>

\* seq with the elements at i and j exchanged
Exchange(seq, i, j) ==
  [k \in 1..Len(seq) |-> IF k = i THEN seq[j] ELSE IF k = j THEN seq[i] ELSE seq[k]]

\* seq without its i-th element
Without(seq, i) == SubSeq(seq, 1, i - 1) \o SubSeq(seq, i + 1, Len(seq))

\* ProofPlan without the Tuple pass that follows LinearScan
ProofPlan_NoFinalTuple(fits_in_bits_ip) ==
  VariantHead \o VariantFlag(fits_in_bits_ip) \o Without(VariantTail, 6)

\* ProofPlan with ScalarizeVars pushed before DeskolemizeWitnesses
ProofPlan_ScalarizeFirst(fits_in_bits_ip) ==
  Exchange(VariantHead, 2, 3) \o VariantFlag(fits_in_bits_ip) \o VariantTail

\* ProofPlan with the flag test placed after the push of SkolemizeChallenges
ProofPlan_FitsAfterSkolemize(fits_in_bits_ip) ==
  VariantHead \o << VariantTail[1] >> \o VariantFlag(fits_in_bits_ip)
    \o Tail(VariantTail)

\* ProofPlan with its last two pushes exchanged
ProofPlan_FoldThenFlatten(fits_in_bits_ip) ==
  VariantHead \o VariantFlag(fits_in_bits_ip) \o Exchange(VariantTail, 7, 8)

\* zkmb.rs:150-180: the pushes onto opts, in order
ProofPlan(fits_in_bits_ip) ==
  << ConstantFold({}),
     Pass("DeskolemizeWitnesses"),
     Pass("ScalarizeVars"),
     Pass("Flatten"),
     Pass("Sha"),
     ConstantFold({}),
     Pass("ParseCondStores"),
     ConstantFold({}),
     Pass("Obliv"),
     Pass("SetMembership"),
     Pass("PersistentRam"),
     Pass("VolatileRam") >>
  \o (IF fits_in_bits_ip THEN << Pass("FitsInBitsIp") >> ELSE << >>)
  \o << Pass("SkolemizeChallenges"),
        Pass("ScalarizeVars"),
        ConstantFold({}),
        Pass("Obliv"),
        Pass("LinearScan"),
        Pass("Tuple"),
        Pass("Flatten"),
        ConstantFold({}) >>

\* zkmb.rs:120-181: the match on mode
SelectPlan(mode, fits_in_bits_ip) ==
  CASE mode.kind = "Opt" -> OptPlan
    [] mode.kind = "Mpc" -> MpcPlan
    [] mode.kind \in {"Proof", "ProofOfHighValue"} -> ProofPlan(fits_in_bits_ip)

\* ------------------------------------------------------------ the state
VARIABLES
  fs,        \* the artifact files: path -> content
  pc,        \* per run: position in main
  cmd,       \* per run: options.action
  loc,       \* per run: the local variables of main, gone when it ends
  written,   \* per run: paths the run has created or modified
  verdict,   \* per Verify run: what the external verifier decided
  stages,    \* per run: the stages the run has entered, in order
  s_pc,      \* plan selector applied to arbitrary inputs: position
  s_mode,    \*   its ProofMode argument
  s_flag,    \*   its fits_in_bits_ip argument
  s_opts,    \*   the plan it returned
  s_applied  \*   the passes the pass engine has applied so far

driverVars == << fs, pc, cmd, loc, written, verdict, stages >>
selVars == << s_pc, s_mode, s_flag, s_opts, s_applied >>
vars == << fs, pc, cmd, loc, written, verdict, stages,
           s_pc, s_mode, s_flag, s_opts, s_applied >>

\* default_value of the path arguments, zkmb.rs:44-80
Paths == {"P", "V", "gens", "inst", "proof"}

\* content of a file that does not exist
Absent == [kind |-> "absent", circ |-> 0, run |-> 0, key |-> 0]

\* content of a file that File::create made or truncated and that the
\* serializer did not complete
Truncated == [kind |-> "trunc", circ |-> 0, run |-> 0, key |-> 0]

\* a serialized artifact of the given type, derived from circuit c by run r;
\* the outputs of the prover also carry `key`, the Generate run whose prover
\* key they were computed from (0 for the keys themselves)
Artifact(kind, c, r) == [kind |-> kind, circ |-> c, run |-> r, key |-> 0]

\* an output of the prover, computed by run r from the prover key k
Output(kind, k, r) == [kind |-> kind, circ |-> k.circ, run |-> r, key |-> k.run]

\* an input assignment is identified by the circuit it satisfies (0: none)
Assignments == 0..NumCircuits

Commands == {"Generate", "Prove", "Verify"}

\* the ways a process ends: main returns, or a panic aborts it
Ended == {"exit0", "panic"}

\* the locals of main before any of them is bound
NoLocals ==
  [mode |-> ModeProof, cs |-> 0, opts |-> << >>, input_map |-> 0,
   gens |-> Absent, inst |-> Absent, proof |-> Absent]

FirstPc(c) ==
  CASE c = "Generate" -> "g_frontend"
    [] c = "Prove" -> "p_parse"
    [] c = "Verify" -> "v_parse"

\* the state of the runs and files before any run
DriverInit ==
  /\ fs = [f \in Paths |-> Absent]
  /\ pc = [p \in Runs |-> "idle"]
  /\ cmd = [p \in Runs |-> "none"]
  /\ loc = [p \in Runs |-> NoLocals]
  /\ written = [p \in Runs |-> {}]
  /\ verdict = [p \in Runs |-> "none"]
  /\ stages = [p \in Runs |-> << >>]

Init ==
  /\ DriverInit
  /\ s_pc = "off"
  /\ s_mode = ModeProof
  /\ s_flag = FALSE
  /\ s_opts = << >>
  /\ s_applied = << >>

\* the statements that touch no artifact file: they open every run
LocalPc ==
  {"g_frontend", "g_select", "g_opt", "g_to_r1cs", "g_reduce", "g_finalize",
   "p_parse", "v_parse"}

\* Steps that touch no artifact file commute with the steps of the other
\* processes, so a process is scheduled only while no other process is
\* inside such a step sequence or waits to be reaped; the processes
\* interleave freely at every read and write of an artifact file.
Scheduled(p) == \A q \in Runs \ {p} : pc[q] \notin LocalPc \cup Ended

\* zkmb.rs:102-105: a process starts, parses its options and dispatches on
\* the action; runs are numbered in the order in which they start
Start(p) ==
  /\ pc[p] = "idle"
  /\ Scheduled(p)
  /\ IF p = 1 THEN TRUE ELSE pc[p - 1] # "idle"
  /\ \E c \in Commands :
       /\ cmd' = [cmd EXCEPT ![p] = c]
       /\ pc' = [pc EXCEPT ![p] = FirstPc(c)]
  /\ UNCHANGED << fs, loc, written, verdict, stages, selVars >>

\* run p goes on to statement `next` with locals l; when it ends (main
\* returns or a panic aborts the process) its locals are gone
Goto(p, next, l) ==
  /\ pc' = [pc EXCEPT ![p] = next]
  /\ loc' = [loc EXCEPT ![p] = IF next \in Ended THEN NoLocals ELSE l]

\* a panic (failed unwrap, failed assertion) aborts the process
Panic(p) == Goto(p, "panic", NoLocals)

\* the run of process p enters the named stage
Enter(p, stage) == stages' = [stages EXCEPT ![p] = Append(@, stage)]

\* zkmb.rs:84-88 write_to_path: the file is created/truncated and the data
\* serialized into it; or File::create fails and nothing changes; or the
\* serializer panics on an I/O error, leaving the truncated file behind
WriteToPath(p, path, data, next) ==
  \/ /\ fs' = [fs EXCEPT ![path] = data]
     /\ written' = [written EXCEPT ![p] = @ \cup {path}]
     /\ Goto(p, next, loc[p])
  \/ /\ UNCHANGED << fs, written >>
     /\ Panic(p)
  \/ /\ fs' = [fs EXCEPT ![path] = Truncated]
     /\ written' = [written EXCEPT ![p] = @ \cup {path}]
     /\ Panic(p)

\* zkmb.rs:90-94 read_from_path::<T>: File::open fails on a missing file
\* and deserialize_from(..).unwrap() panics on anything that is not a T
ReadOk(path, kind) == fs[path].kind = kind

\* ------------------------------------------------------------- Generate
\* G_FrontEnd as it would be if the key file were created before the front
\* end has run
G_FrontEnd_KeyFileFirst(p) ==
  /\ pc[p] = "g_frontend"
  /\ Scheduled(p)
  /\ Enter(p, "frontend")
  /\ fs' = [fs EXCEPT !["P"] = Truncated]
  /\ written' = [written EXCEPT ![p] = @ \cup {"P"}]
  /\ \E src \in 0..NumCircuits :
       IF src = 0
         THEN Panic(p)
         ELSE Goto(p, "g_select", [loc[p] EXCEPT !.mode = ModeProof, !.cs = src])
  /\ UNCHANGED << cmd, verdict, selVars >>

\* G_FrontEnd as it would be if mode were bound to Mode::Opt
G_FrontEnd_ModeOpt(p) ==
  /\ pc[p] = "g_frontend"
  /\ Scheduled(p)
  /\ Enter(p, "frontend")
  /\ \E src \in 0..NumCircuits :
       IF src = 0
         THEN Panic(p)
         ELSE Goto(p, "g_select",
                   [loc[p] EXCEPT !.mode = [kind |-> "Opt", param |-> 0], !.cs = src])
  /\ UNCHANGED << fs, written, cmd, verdict, selVars >>

\* zkmb.rs:107-116: mode is fixed to Mode::Proof and the front end runs on
\* the source file; ZSharpFE::gen returns the computations or panics
G_FrontEnd(p) ==
  /\ pc[p] = "g_frontend"
  /\ Scheduled(p)
  /\ Enter(p, "frontend")
  /\ \E src \in 0..NumCircuits :
       IF src = 0
         THEN Panic(p)
         ELSE Goto(p, "g_select", [loc[p] EXCEPT !.mode = ModeProof, !.cs = src])
  /\ UNCHANGED << fs, written, cmd, verdict, selVars >>

\* zkmb.rs:118-178: the match on mode builds the plan, reading
\* options.circ.ir.fits_in_bits_ip in the Proof arm
G_Select(p) ==
  /\ pc[p] = "g_select"
  /\ Scheduled(p)
  /\ Enter(p, "opt")
  /\ \E fits_in_bits_ip \in BOOLEAN :
       Goto(p, "g_opt",
            [loc[p] EXCEPT !.opts = SelectPlan(loc[p].mode, fits_in_bits_ip)])
  /\ UNCHANGED << fs, written, cmd, verdict, selVars >>

\* zkmb.rs:179-182 opt(cs, opts): the plan is moved into the pass engine,
\* which returns the optimized system or panics in a pass
G_Opt(p) ==
  /\ pc[p] = "g_opt"
  /\ Scheduled(p)
  /\ \/ Goto(p, "g_to_r1cs", [loc[p] EXCEPT !.opts = << >>])
     \/ Panic(p)
  /\ UNCHANGED << fs, written, cmd, verdict, stages, selVars >>

\* G_ToR1cs as it would be if the lowered system went to finalize directly
G_ToR1cs_SkipsReduce(p) ==
  /\ pc[p] = "g_to_r1cs"
  /\ Scheduled(p)
  /\ Enter(p, "to_r1cs")
  /\ \/ Goto(p, "g_finalize", loc[p])
     \/ Panic(p)
  /\ UNCHANGED << fs, written, cmd, verdict, selVars >>

\* zkmb.rs:184-189: cs.get("main") and to_r1cs
G_ToR1cs(p) ==
  /\ pc[p] = "g_to_r1cs"
  /\ Scheduled(p)
  /\ Enter(p, "to_r1cs")
  /\ \/ Goto(p, "g_reduce", loc[p])
     \/ Panic(p)
  /\ UNCHANGED << fs, written, cmd, verdict, selVars >>

\* zkmb.rs:191-195: reduce_linearities
G_Reduce(p) ==
  /\ pc[p] = "g_reduce"
  /\ Scheduled(p)
  /\ Enter(p, "reduce_linearities")
  /\ Goto(p, "g_finalize", loc[p])
  /\ UNCHANGED << fs, written, cmd, verdict, selVars >>

\* zkmb.rs:197-201: r1cs.finalize(cs)
G_Finalize(p) ==
  /\ pc[p] = "g_finalize"
  /\ Scheduled(p)
  /\ Enter(p, "finalize")
  /\ Goto(p, "g_write_p", loc[p])
  /\ UNCHANGED << fs, written, cmd, verdict, selVars >>

\* zkmb.rs:202-203 spartan::write_data(..).unwrap(): the prover key first
G_WriteProverKey(p) ==
  /\ pc[p] = "g_write_p"
  /\ Scheduled(p)
  /\ Enter(p, "write_data")
  /\ WriteToPath(p, "P", Artifact("pk", loc[p].cs, p), "g_write_v")
  /\ UNCHANGED << cmd, verdict, selVars >>

\* zkmb.rs:202-203 spartan::write_data(..).unwrap(): then the verifier key
G_WriteVerifierKey(p) ==
  /\ pc[p] = "g_write_v"
  /\ Scheduled(p)
  /\ WriteToPath(p, "V", Artifact("vk", loc[p].cs, p), "exit0")
  /\ UNCHANGED << cmd, verdict, stages, selVars >>

\* ---------------------------------------------------------------- Prove
\* zkmb.rs:206 (and 214): std::fs::read(..).unwrap() panics on a missing
\* file and parse_value_map panics on a malformed one
ParseInput(p, next) ==
  \/ Panic(p)
  \/ \E a \in Assignments : Goto(p, next, [loc[p] EXCEPT !.input_map = a])

P_Parse(p) ==
  /\ pc[p] = "p_parse"
  /\ Scheduled(p)
  /\ Enter(p, "parse_value_map")
  /\ ParseInput(p, "p_prove")
  /\ UNCHANGED << fs, written, cmd, verdict, selVars >>

\* spartan::prove(prover_key, inputs, field): loads the prover key, fails
\* when it is absent or corrupt or when the assignment does not satisfy the
\* constraint system, and otherwise returns (gens, inst, proof)
spartan_prove(p) ==
  IF ReadOk("P", "pk") /\ loc[p].input_map = fs["P"].circ
    THEN [ok |-> TRUE, key |-> fs["P"]]
    ELSE [ok |-> FALSE, key |-> Absent]

\* zkmb.rs:207-208: spartan::prove(..).unwrap()
P_Prove(p) ==
  /\ pc[p] = "p_prove"
  /\ Scheduled(p)
  /\ Enter(p, "prove")
  /\ LET r == spartan_prove(p) IN
       IF r.ok
         THEN Goto(p, "p_write_gens",
                   [loc[p] EXCEPT !.gens = Output("gens", r.key, p),
                                  !.inst = Output("inst", r.key, p),
                                  !.proof = Output("proof", r.key, p)])
         ELSE Panic(p)
  /\ UNCHANGED << fs, written, cmd, verdict, selVars >>

\* zkmb.rs:209
P_WriteGens(p) ==
  /\ pc[p] = "p_write_gens"
  /\ Scheduled(p)
  /\ Enter(p, "write_gens")
  /\ WriteToPath(p, "gens", loc[p].gens, "p_write_inst")
  /\ UNCHANGED << cmd, verdict, selVars >>

\* P_WriteInst as it would be if it were given &gens
P_WriteInst_GensValue(p) ==
  /\ pc[p] = "p_write_inst"
  /\ Scheduled(p)
  /\ Enter(p, "write_inst")
  /\ WriteToPath(p, "inst", loc[p].gens, "p_write_proof")
  /\ UNCHANGED << cmd, verdict, selVars >>

\* zkmb.rs:210
P_WriteInst(p) ==
  /\ pc[p] = "p_write_inst"
  /\ Scheduled(p)
  /\ Enter(p, "write_inst")
  /\ WriteToPath(p, "inst", loc[p].inst, "p_write_proof")
  /\ UNCHANGED << cmd, verdict, selVars >>

\* P_WriteProof as it would be if it were given the prover_key path
P_WriteProof_ToKeyPath(p) ==
  /\ pc[p] = "p_write_proof"
  /\ Scheduled(p)
  /\ Enter(p, "write_proof")
  /\ WriteToPath(p, "P", loc[p].proof, "exit0")
  /\ UNCHANGED << cmd, verdict, selVars >>

\* zkmb.rs:211
P_WriteProof(p) ==
  /\ pc[p] = "p_write_proof"
  /\ Scheduled(p)
  /\ Enter(p, "write_proof")
  /\ WriteToPath(p, "proof", loc[p].proof, "exit0")
  /\ UNCHANGED << cmd, verdict, selVars >>

\* --------------------------------------------------------------- Verify
\* zkmb.rs:214
V_Parse(p) ==
  /\ pc[p] = "v_parse"
  /\ Scheduled(p)
  /\ Enter(p, "parse_value_map")
  /\ ParseInput(p, "v_read_gens")
  /\ UNCHANGED << fs, written, cmd, verdict, selVars >>

\* zkmb.rs:216
V_ReadGens(p) ==
  /\ pc[p] = "v_read_gens"
  /\ Scheduled(p)
  /\ Enter(p, "read_gens")
  /\ IF ReadOk("gens", "gens")
       THEN Goto(p, "v_read_inst", [loc[p] EXCEPT !.gens = fs["gens"]])
       ELSE Panic(p)
  /\ UNCHANGED << fs, written, cmd, verdict, selVars >>

\* V_ReadInst as it would be if it were given gens_path
V_ReadInst_FromGensPath(p) ==
  /\ pc[p] = "v_read_inst"
  /\ Scheduled(p)
  /\ Enter(p, "read_inst")
  /\ IF ReadOk("gens", "inst")
       THEN Goto(p, "v_read_proof", [loc[p] EXCEPT !.inst = fs["gens"]])
       ELSE Panic(p)
  /\ UNCHANGED << fs, written, cmd, verdict, selVars >>

\* zkmb.rs:217
V_ReadInst(p) ==
  /\ pc[p] = "v_read_inst"
  /\ Scheduled(p)
  /\ Enter(p, "read_inst")
  /\ IF ReadOk("inst", "inst")
       THEN Goto(p, "v_read_proof", [loc[p] EXCEPT !.inst = fs["inst"]])
       ELSE Panic(p)
  /\ UNCHANGED << fs, written, cmd, verdict, selVars >>

\* V_ReadProof as it would be if a failed read were replaced by a default
\* value instead of unwrapped
V_ReadProof_IgnoresFailure(p) ==
  /\ pc[p] = "v_read_proof"
  /\ Scheduled(p)
  /\ Enter(p, "read_proof")
  /\ IF ReadOk("proof", "proof")
       THEN Goto(p, "v_verify", [loc[p] EXCEPT !.proof = fs["proof"]])
       ELSE Goto(p, "v_verify", loc[p])
  /\ UNCHANGED << fs, written, cmd, verdict, selVars >>

\* zkmb.rs:218
V_ReadProof(p) ==
  /\ pc[p] = "v_read_proof"
  /\ Scheduled(p)
  /\ Enter(p, "read_proof")
  /\ IF ReadOk("proof", "proof")
       THEN Goto(p, "v_verify", [loc[p] EXCEPT !.proof = fs["proof"]])
       ELSE Panic(p)
  /\ UNCHANGED << fs, written, cmd, verdict, selVars >>

\* spartan_verify as it would be if the verifier checked the proof against
\* the instance it is given without binding it to the verifier key
spartan_verify_KeyUnbound(p) ==
  IF ~ReadOk("V", "vk") THEN "error"
  ELSE IF /\ loc[p].gens.circ = loc[p].inst.circ
          /\ loc[p].proof.circ = loc[p].inst.circ
          /\ loc[p].input_map = loc[p].inst.circ
       THEN "accept"
       ELSE "reject"

\* spartan::verify(verifier_key, inputs, gens, inst, proof): loads the
\* verifier key (an operational error when it is absent or corrupt) and
\* accepts exactly when key, generators, instance, proof and public inputs
\* belong to the same circuit
spartan_verify(p) ==
  IF ~ReadOk("V", "vk") THEN "error"
  ELSE IF /\ loc[p].gens.circ = fs["V"].circ
          /\ loc[p].inst.circ = fs["V"].circ
          /\ loc[p].proof.circ = fs["V"].circ
          /\ loc[p].input_map = fs["V"].circ
       THEN "accept"
       ELSE "reject"

\* V_Verify as it would be if the result were taken with unwrap_err(): the
\* run panics when the verifier returns without an error
V_Verify_UnwrapErr(p) ==
  /\ pc[p] = "v_verify"
  /\ Scheduled(p)
  /\ Enter(p, "verify")
  /\ LET r == spartan_verify(p) IN
       \/ /\ r = "error"
          /\ UNCHANGED verdict
          /\ Goto(p, "exit0", NoLocals)
       \/ /\ r = "accept"
          /\ verdict' = [verdict EXCEPT ![p] = "accept"]
          /\ Panic(p)
       \/ /\ r = "reject"
          /\ verdict' = [verdict EXCEPT ![p] = "reject"]
          /\ Goto(p, "exit0", NoLocals)
       \/ /\ r = "reject"
          /\ verdict' = [verdict EXCEPT ![p] = "reject"]
          /\ Panic(p)
  /\ UNCHANGED << fs, written, cmd, selVars >>

\* zkmb.rs:219 spartan::verify(..).unwrap(); the unwrapped value is dropped
\* and main returns.  A rejection reaches main either error-shaped (an Err
\* or a failed assertion inside the verifier), which panics here, or as the
\* value inside Ok, which is discarded.
V_Verify(p) ==
  /\ pc[p] = "v_verify"
  /\ Scheduled(p)
  /\ Enter(p, "verify")
  /\ LET r == spartan_verify(p) IN
       \/ /\ r = "error"
          /\ UNCHANGED verdict
          /\ Panic(p)
       \/ /\ r = "accept"
          /\ verdict' = [verdict EXCEPT ![p] = "accept"]
          /\ Goto(p, "exit0", NoLocals)
       \/ /\ r = "reject"
          /\ verdict' = [verdict EXCEPT ![p] = "reject"]
          /\ Panic(p)
       \/ /\ r = "reject"
          /\ verdict' = [verdict EXCEPT ![p] = "reject"]
          /\ Goto(p, "exit0", NoLocals)
  /\ UNCHANGED << fs, written, cmd, selVars >>

\* the exit status of an ended process is collected and the process is gone,
\* before any other process takes a step
Reap(p) ==
  /\ pc[p] \in Ended
  /\ Scheduled(p)
  /\ pc' = [pc EXCEPT ![p] = "reaped"]
  /\ cmd' = [cmd EXCEPT ![p] = "none"]
  /\ written' = [written EXCEPT ![p] = {}]
  /\ verdict' = [verdict EXCEPT ![p] = "none"]
  /\ stages' = [stages EXCEPT ![p] = << >>]
  /\ UNCHANGED << fs, loc, selVars >>

Next ==
  \E p \in Runs :
    \/ Start(p)
    \/ G_FrontEnd(p)
    \/ G_Select(p)
    \/ G_Opt(p)
    \/ G_ToR1cs(p)
    \/ G_Reduce(p)
    \/ G_Finalize(p)
    \/ G_WriteProverKey(p)
    \/ G_WriteVerifierKey(p)
    \/ P_Parse(p)
    \/ P_Prove(p)
    \/ P_WriteGens(p)
    \/ P_WriteInst(p)
    \/ P_WriteProof(p)
    \/ V_Parse(p)
    \/ V_ReadGens(p)
    \/ V_ReadInst(p)
    \/ V_ReadProof(p)
    \/ V_Verify(p)
    \/ Reap(p)

Spec == Init /\ [][Next]_vars

\* ------------------------------ the pipeline between machines and callers
\* Generate, Prove and Verify are run one after another by a caller who may
\* start a Prove while other Proves are still running; between the runs the
\* environment may replace the files the stages exchange.

\* run q has started and its exit status has not been collected
Live(q) == pc[q] \notin {"idle", "reaped", "proved"}

\* no run is under way
Quiet == \A q \in Runs : ~Live(q)

\* zkmb.rs:102-105: a process starts while no other run is under way, or as
\* a Prove next to Proves
PipeStart(p) ==
  /\ Start(p)
  /\ \A q \in Runs \ {p} : Live(q) => (cmd'[p] = "Prove" /\ cmd[q] = "Prove")

\* the exit status of an ended process is collected; the caller remembers
\* which runs were Proves that returned normally
Retire(p) ==
  /\ pc[p] \in Ended
  /\ Scheduled(p)
  /\ pc' = [pc EXCEPT ![p] = IF cmd[p] = "Prove" /\ pc[p] = "exit0"
                                THEN "proved" ELSE "reaped"]
  /\ cmd' = [cmd EXCEPT ![p] = "none"]
  /\ written' = [written EXCEPT ![p] = {}]
  /\ verdict' = [verdict EXCEPT ![p] = "none"]
  /\ stages' = [stages EXCEPT ![p] = << >>]
  /\ UNCHANGED << fs, loc, selVars >>

\* content of a file whose bytes no longer decode as any artifact
Corrupt == [kind |-> "corrupt", circ |-> 0, run |-> 0, key |-> 0]

\* the proof file is altered on disk between two runs: the altered bytes
\* either still decode as a proof, which is then a proof of no circuit, or
\* they no longer decode
TamperProof ==
  /\ Quiet
  /\ fs["proof"].kind = "proof"
  /\ fs["proof"].circ # 0
  /\ \/ fs' = [fs EXCEPT !["proof"].circ = 0]
     \/ fs' = [fs EXCEPT !["proof"] = Corrupt]
  /\ UNCHANGED << pc, cmd, loc, written, verdict, stages, selVars >>

\* a circuit that none of the runs here compiles
ForeignCircuit == NumCircuits + 1

\* the verifier key file is replaced between two runs by the output of a
\* Generate run made elsewhere (run 0), over a circuit compiled here or
\* over another one
InstallVerifierKey ==
  /\ Quiet
  /\ fs["V"].kind = "vk"
  /\ fs["V"].run # 0
  /\ \E c \in Circuits \cup {ForeignCircuit} :
       fs' = [fs EXCEPT !["V"] = Artifact("vk", c, 0)]
  /\ UNCHANGED << pc, cmd, loc, written, verdict, stages, selVars >>

PipeNext ==
  \/ \E p \in Runs :
       \/ PipeStart(p)
       \/ G_FrontEnd(p)
       \/ G_Select(p)
       \/ G_Opt(p)
       \/ G_ToR1cs(p)
       \/ G_Reduce(p)
       \/ G_Finalize(p)
       \/ G_WriteProverKey(p)
       \/ G_WriteVerifierKey(p)
       \/ P_Parse(p)
       \/ P_Prove(p)
       \/ P_WriteGens(p)
       \/ P_WriteInst(p)
       \/ P_WriteProof(p)
       \/ V_Parse(p)
       \/ V_ReadGens(p)
       \/ V_ReadInst(p)
       \/ V_ReadProof(p)
       \/ V_Verify(p)
       \/ Retire(p)
  \/ TamperProof
  \/ InstallVerifierKey

PipeSpec == Init /\ [][PipeNext]_vars

\* ------------------------------------------- the plan selector on its own
\* the selector and the pass engine applied to every mode and flag value
PlanInit ==
  /\ DriverInit
  /\ s_pc = "select"
  /\ s_mode \in Modes
  /\ s_flag \in BOOLEAN
  /\ s_opts = << >>
  /\ s_applied = << >>

\* zkmb.rs:120-181 evaluated for (s_mode, s_flag)
S_Select ==
  /\ s_pc = "select"
  /\ s_opts' = SelectPlan(s_mode, s_flag)
  /\ s_pc' = "apply"
  /\ UNCHANGED << s_mode, s_flag, s_applied, driverVars >>

\* opt(cs, plan): the engine applies the next pass of the plan, in order
S_Apply ==
  /\ s_pc = "apply"
  /\ Len(s_applied) < Len(s_opts)
  /\ s_applied' = Append(s_applied, s_opts[Len(s_applied) + 1])
  /\ UNCHANGED << s_pc, s_mode, s_flag, s_opts, driverVars >>

\* opt(cs, plan) returns; the system goes on to R1CS lowering
S_Return ==
  /\ s_pc = "apply"
  /\ Len(s_applied) = Len(s_opts)
  /\ s_pc' = "lowering"
  /\ UNCHANGED << s_mode, s_flag, s_opts, s_applied, driverVars >>

PlanNext == S_Select \/ S_Apply \/ S_Return

PlanSpec == PlanInit /\ [][PlanNext]_vars

\* ================================================================ claims
KeyPaths == {"P", "V"}
ProveOutputs == {"gens", "inst", "proof"}

GenerateStages ==
  << "frontend", "opt", "to_r1cs", "reduce_linearities", "finalize", "write_data" >>

\* the run of p is a Generate whose front end panicked
FrontEndFailed(p) ==
  cmd[p] = "Generate" /\ pc[p] = "panic" /\ stages[p] = << "frontend" >>

\* C1 (as claimed): whenever the external verifier rejects, the Verify run
\* does not end in the fatal abort that a missing or undecodable artifact
\* file produces.
C1_RejectionIsNotAbort ==
  \A p \in Runs :
    (cmd[p] = "Verify" /\ verdict[p] = "reject") => pc[p] # "panic"

\* C2: a Generate run whose front end failed has created or modified neither
\* key file, and a run that has written a key file has gone through front
\* end, optimization, R1CS lowering, linearity reduction and finalization.
C2_NoKeyFileAfterFrontEndFailure ==
  \A p \in Runs :
    /\ FrontEndFailed(p) => written[p] \cap KeyPaths = {}
    /\ written[p] \cap KeyPaths # {} =>
         cmd[p] = "Generate" /\ stages[p] = GenerateStages

\* C2 witness: a front end failed while a prover key of an earlier run is
\* on disk
C2_Witness ==
  \E p \in Runs : FrontEndFailed(p) /\ fs["P"].kind = "pk"

\* C3 (as claimed): a Prove run that failed has created or modified none of
\* its three output files.
C3_FailedProveWritesNothing ==
  \A p \in Runs :
    (cmd[p] = "Prove" /\ pc[p] = "panic") => written[p] \cap ProveOutputs = {}

\* ----------------------------------------------- claims about the plans
\* positions of the passes with the given tag
Idx(plan, tag) == {i \in 1..Len(plan) : plan[i].tag = tag}

\* positions of the passes with one of the given tags
IdxAny(plan, tags) == {i \in 1..Len(plan) : plan[i].tag \in tags}

Max(S) == CHOOSE x \in S : \A y \in S : y <= x

\* position of the last Tuple pass, 0 when there is none
LastTuple(plan) == Max(Idx(plan, "Tuple") \cup {0})

\* the sequence of tags of a plan
Tags(plan) == [i \in 1..Len(plan) |-> plan[i].tag]

\* the plan for (s_mode, s_flag) has been selected
Planned == s_pc # "select"

IsProofKind == s_mode.kind \in {"Proof", "ProofOfHighValue"}

\* C4 (as claimed): counting Obliv, LinearScan and Flatten as
\* tuple-introducing, every such pass that was run before R1CS lowering is
\* immediately followed by Tuple, or none of them runs after the last Tuple.
C4_NoTupleIntroducingPassLast ==
  s_pc = "lowering" =>
    LET ti == IdxAny(s_applied, {"Obliv", "LinearScan", "Flatten"}) IN
      \/ \A i \in ti : i < Len(s_applied) /\ s_applied[i + 1].tag = "Tuple"
      \/ \A i \in ti : i < LastTuple(s_applied)

\* C4 (amended): in the passes run before R1CS lowering, no Obliv and no
\* LinearScan pass comes after the last Tuple pass.
C4_NoOblivOrLinearScanAfterLastTuple ==
  s_pc = "lowering" =>
    \A i \in IdxAny(s_applied, {"Obliv", "LinearScan"}) : i < LastTuple(s_applied)

\* C4 witness: a Proof-kind plan with LinearScan has been run to the end
C4_Witness ==
  /\ s_pc = "lowering"
  /\ IsProofKind
  /\ Idx(s_applied, "LinearScan") # {}
  /\ Idx(s_applied, "Flatten") # {}

\* C5 (as claimed): every Obliv pass of the selected plan is preceded by a
\* Tuple pass with no Flatten, Obliv or LinearScan between the two.
C5_TupleBeforeEveryObliv ==
  Planned =>
    \A i \in Idx(s_opts, "Obliv") :
      \E j \in Idx(s_opts, "Tuple") :
        /\ j < i
        /\ \A k \in (j + 1)..(i - 1) :
             s_opts[k].tag \notin {"Flatten", "Obliv", "LinearScan"}

\* C6: in the Proof and ProofOfHighValue plans DeskolemizeWitnesses comes
\* before every ScalarizeVars, and PersistentRam and VolatileRam come before
\* SkolemizeChallenges.
C6_ProofPlanOrdering ==
  (Planned /\ IsProofKind) =>
    /\ Idx(s_opts, "DeskolemizeWitnesses") # {}
    /\ \A d \in Idx(s_opts, "DeskolemizeWitnesses"), v \in Idx(s_opts, "ScalarizeVars") :
         d < v
    /\ Idx(s_opts, "PersistentRam") # {}
    /\ Idx(s_opts, "VolatileRam") # {}
    /\ Idx(s_opts, "SkolemizeChallenges") # {}
    /\ \A r \in IdxAny(s_opts, {"PersistentRam", "VolatileRam"}),
          k \in Idx(s_opts, "SkolemizeChallenges") : r < k

\* C6 witness: the plan of ProofOfHighValue has been selected
C6_Witness ==
  /\ Planned
  /\ s_mode.kind = "ProofOfHighValue"
  /\ Idx(s_opts, "ScalarizeVars") # {}
  /\ Idx(s_opts, "PersistentRam") # {}

\* C7: in the Proof-kind plans FitsInBitsIp occurs iff the flag is set, then
\* exactly once and immediately before SkolemizeChallenges, and removing it
\* gives the plan of the unset flag; the Opt and Mpc plans do not depend on
\* the flag.
C7_FitsInBitsIpPlacement ==
  Planned =>
    LET f == Idx(s_opts, "FitsInBitsIp") IN
      IF IsProofKind
        THEN /\ (f # {}) <=> s_flag
             /\ s_flag => Cardinality(f) = 1
             /\ \A i \in f : i < Len(s_opts)
                              /\ s_opts[i + 1] = Pass("SkolemizeChallenges")
             /\ SelectSeq(s_opts, LAMBDA x : x.tag # "FitsInBitsIp")
                  = SelectPlan(s_mode, FALSE)
        ELSE /\ f = {}
             /\ s_opts = SelectPlan(s_mode, ~s_flag)

\* C7 witness: a Proof-kind plan selected with the flag set
C7_Witness ==
  Planned /\ IsProofKind /\ s_flag /\ Idx(s_opts, "FitsInBitsIp") # {}

\* C8: the Proof-kind plans end with Flatten and then ConstantFold with an
\* empty exclusion set.
C8_ProofPlanTail ==
  (Planned /\ IsProofKind) =>
    /\ Len(s_opts) >= 2
    /\ s_opts[Len(s_opts) - 1] = Pass("Flatten")
    /\ s_opts[Len(s_opts)] = ConstantFold({})

\* C8 witness: the pass engine has run a whole Proof plan, flag unset
C8_Witness ==
  /\ s_pc = "lowering"
  /\ s_mode.kind = "Proof"
  /\ ~s_flag
  /\ Len(s_applied) > 2

\* C9: the Mpc plan is the 12 passes ScalarizeVars, Flatten, Sha,
\* ConstantFold, Flatten, Tuple, Obliv, Tuple, LinearScan, Tuple,
\* ConstantFold, Binarize, both folds excluding exactly shift-left and
\* shift-right.
C9_MpcPlan ==
  (Planned /\ s_mode.kind = "Mpc") =>
    /\ Tags(s_opts) =
         << "ScalarizeVars", "Flatten", "Sha", "ConstantFold", "Flatten", "Tuple",
            "Obliv", "Tuple", "LinearScan", "Tuple", "ConstantFold", "Binarize" >>
    /\ \A i \in 1..Len(s_opts) :
         s_opts[i].ignore =
           IF s_opts[i].tag = "ConstantFold" THEN {"BV_SHL", "BV_LSHR"} ELSE {}

\* C9 witness: the plan of Mpc(1) has been selected
C9_Witness ==
  Planned /\ s_mode = [kind |-> "Mpc", param |-> 1] /\ Len(s_opts) = 12

\* C10: the Opt plan is ScalarizeVars followed by ConstantFold with an empty
\* exclusion set.
C10_OptPlan ==
  (Planned /\ s_mode.kind = "Opt") =>
    /\ Tags(s_opts) = << "ScalarizeVars", "ConstantFold" >>
    /\ s_opts[2].ignore = {}
    /\ s_opts[1].ignore = {}

\* C10 witness: the pass engine has run the two passes of the Opt plan
C10_Witness ==
  s_pc = "lowering" /\ s_mode.kind = "Opt" /\ Len(s_applied) = 2

\* ------------------------------------------- claims about the pipeline
\* the statement of a Verify run that reads the named output file
ReadPc(f) ==
  CASE f = "gens" -> "v_read_gens"
    [] f = "inst" -> "v_read_inst"
    [] f = "proof" -> "v_read_proof"

\* run p takes a step
Steps(p) == pc'[p] # pc[p]

\* what run p is about to hand to the verifier is the unaltered output of
\* one Prove run, computed from the prover key of the Generate run whose
\* verifier key is in place, together with the public inputs of that circuit
HappyInputs(p) ==
  /\ fs["V"].kind = "vk"
  /\ \A f \in ProveOutputs :
       /\ loc[p][f].kind = f
       /\ loc[p][f].circ = fs["V"].circ
       /\ loc[p][f].key = fs["V"].run
       /\ loc[p][f].run = loc[p].proof.run
  /\ loc[p].input_map = fs["V"].circ

\* C12: on the happy path (Generate, then Prove with a satisfying
\* assignment and that Generate's prover key, then Verify with the matching
\* verifier key, the matching public inputs and the three unaltered
\* outputs) no read of an output file that holds an output of its type
\* aborts the Verify run, and the call of the verifier ends the run with
\* the outcome accept and a normal return.
C12_HappyPathAccepts ==
  [][\A p \in Runs :
       /\ \A f \in ProveOutputs :
            (pc[p] = ReadPc(f) /\ Steps(p) /\ fs[f].kind = f)
              => pc'[p] # "panic"
       /\ (pc[p] = "v_verify" /\ Steps(p) /\ HappyInputs(p))
            => (verdict'[p] = "accept" /\ pc'[p] = "exit0")]_vars

\* C12 witness: a Verify run has accepted and returned, and the five files
\* on disk are the key pair of one Generate run and the outputs one Prove
\* run computed from that prover key
C12_Witness ==
  \E p \in Runs :
    /\ cmd[p] = "Verify" /\ pc[p] = "exit0" /\ verdict[p] = "accept"
    /\ fs["P"].kind = "pk" /\ fs["V"].kind = "vk"
    /\ fs["P"].run = fs["V"].run /\ fs["V"].run \in Runs
    /\ \A f \in ProveOutputs :
         /\ fs[f].kind = f
         /\ fs[f].key = fs["V"].run
         /\ fs[f].run = fs["proof"].run
         /\ fs[f].circ = fs["V"].circ

\* the proof value was altered after Prove wrote it and still decodes
Altered(proof) == proof.kind = "proof" /\ proof.circ = 0

\* C13 (as claimed): when the proof file was altered between Prove and
\* Verify, the Verify run neither aborts nor accepts: reading the altered
\* file does not panic, and the run that hands the altered proof to the
\* verifier, with the verifier key in place, ends with the outcome reject
\* and a normal return.
C13_AlteredProofIsRejected ==
  [][\A p \in Runs :
       /\ (pc[p] = "v_read_proof" /\ Steps(p)
             /\ (fs["proof"] = Corrupt \/ Altered(fs["proof"])))
            => pc'[p] # "panic"
       /\ (pc[p] = "v_verify" /\ Steps(p) /\ Altered(loc[p].proof)
             /\ fs["V"].kind = "vk")
            => (verdict'[p] = "reject" /\ pc'[p] = "exit0")]_vars

\* run p is about to hand the verifier an unaltered proof while a verifier
\* key is in place
KeyAndProof(p) ==
  /\ pc[p] = "v_verify" /\ Steps(p)
  /\ fs["V"].kind = "vk"
  /\ loc[p].proof.kind = "proof" /\ loc[p].proof.circ # 0

WritePc(f) ==
  CASE f = "gens" -> "p_write_gens"
    [] f = "inst" -> "p_write_inst"
    [] f = "proof" -> "p_write_proof"

C16_ProveFrame ==
  [][\A p \in Runs :
       (cmd[p] = "Prove" /\ Steps(p)) =>
         /\ \A f \in Paths \ ProveOutputs : fs'[f] = fs[f]
         /\ \A f \in ProveOutputs :
              fs'[f] # fs[f] =>
                /\ pc[p] = WritePc(f)
                /\ fs'[f] \in {loc[p][f], Truncated}
                /\ loc[p][f].kind = f /\ loc[p][f].run = p
         /\ written'[p] \subseteq ProveOutputs]_vars

\* C16 witness: a Prove run has returned after writing its three outputs,
\* which are on disk next to the prover key it used
C16_Witness ==
  \E p \in Runs :
    /\ cmd[p] = "Prove" /\ pc[p] = "exit0" /\ written[p] = ProveOutputs
    /\ fs["P"].kind = "pk"
    /\ \A f \in ProveOutputs :
         fs[f].kind = f /\ fs[f].run = p /\ fs[f].key = fs["P"].run

\* -------------------------------------- claims about the stages of a run
\* s is an initial segment of t
IsPrefix(s, t) == Len(s) <= Len(t) /\ \A i \in 1..Len(s) : s[i] = t[i]

VerifyStages ==
  << "parse_value_map", "read_gens", "read_inst", "read_proof", "verify" >>

\* C17: the plan a Generate run hands to the pass engine is the plan the
\* selector returns for Mode::Proof under one of the two values of
\* fits_in_bits_ip, and it is neither the Opt plan nor the Mpc plan.
C17_GenerateRunsProofPlan ==
  \A p \in Runs :
    pc[p] = "g_opt" =>
      /\ cmd[p] = "Generate"
      /\ loc[p].mode = ModeProof
      /\ \E fits_in_bits_ip \in BOOLEAN :
           loc[p].opts = SelectPlan(ModeProof, fits_in_bits_ip)
      /\ loc[p].opts \notin {OptPlan, MpcPlan}

\* C17 witness: a Generate run is about to execute the Proof plan with the
\* FitsInBitsIp pass, while key files of an earlier run are on disk
C17_Witness ==
  \E p \in Runs :
    /\ pc[p] = "g_opt"
    /\ loc[p].opts = ProofPlan(TRUE)
    /\ fs["P"].kind = "pk" /\ fs["V"].kind = "vk"

\* C19: the stages a Generate run has entered are an initial segment of
\* front end, plan execution, R1CS lowering, linearity reduction,
\* finalization, key persistence (in that order, each at most once, none
\* after a failure); a run that returns has entered all six and written
\* both keys; and a key file written by the run holds the key that
\* finalization returned for the system the run compiled, the two key
\* files of one run being a pair.
C19_GenerateStageOrder ==
  \A p \in Runs :
    cmd[p] = "Generate" =>
      /\ IsPrefix(stages[p], GenerateStages)
      /\ written[p] \subseteq KeyPaths
      /\ pc[p] = "exit0" =>
           (stages[p] = GenerateStages /\ written[p] = KeyPaths)
      /\ (pc[p] = "g_write_v" /\ fs["P"].run = p) =>
           fs["P"] = Artifact("pk", loc[p].cs, p)
      /\ (fs["P"].run = p /\ fs["V"].run = p) =>
           /\ fs["P"].kind = "pk" /\ fs["V"].kind = "vk"
           /\ fs["P"].circ = fs["V"].circ

\* C19 witness: a Generate run has returned after all six stages and its
\* key pair is on disk
C19_Witness ==
  \E p \in Runs :
    /\ cmd[p] = "Generate" /\ pc[p] = "exit0"
    /\ stages[p] = GenerateStages
    /\ fs["P"].run = p /\ fs["V"].run = p

\* C20: the stages a Verify run has entered are an initial segment of
\* input parsing, read of generators, read of instance, read of proof,
\* call of the verifier; when the verifier is called, or has decided, all
\* three artifacts have been decoded; a run that aborted in a read has not
\* called the verifier; and a Verify run has created or modified no file.
C20_VerifyStageOrder ==
  \A p \in Runs :
    cmd[p] = "Verify" =>
      /\ IsPrefix(stages[p], VerifyStages)
      /\ written[p] = {}
      /\ pc[p] = "v_verify" =>
           /\ stages[p] = SubSeq(VerifyStages, 1, 4)
           /\ \A f \in ProveOutputs : loc[p][f].kind = f
      /\ verdict[p] # "none" => stages[p] = VerifyStages
      /\ (pc[p] = "panic" /\ Len(stages[p]) < 5) => verdict[p] = "none"

\* C20 witness: a Verify run aborted in the read of the proof file, after
\* generators and instance had been read, without calling the verifier
C20_Witness ==
  \E p \in Runs :
    /\ cmd[p] = "Verify" /\ pc[p] = "panic"
    /\ stages[p] = SubSeq(VerifyStages, 1, 4)
    /\ fs["gens"].kind = "gens" /\ fs["inst"].kind = "inst"
    /\ fs["proof"].kind # "proof"

\* ------------------------------------------- claims about concurrent runs
\* run r is a Prove that has returned normally
Completed(r) == pc[r] = "proved" \/ (cmd[r] = "Prove" /\ pc[r] = "exit0")

\* every run that has started is a Prove that has returned normally or has
\* been collected, and each output file holds, unaltered, an output of its
\* type written by a Prove that has returned normally
ProvesDone ==
  /\ \A q \in Runs : pc[q] \in {"idle", "reaped", "proved"} \/ Completed(q)
  /\ \A f \in ProveOutputs :
       fs[f].kind = f /\ fs[f].circ # 0 /\ Completed(fs[f].run)

====
